---- MODULE Spec2Model ----
(***************************************************************************)
(* The single-file encrypted store of journal-app: the vault directory     *)
(* (canonical <name>.db files and their <name>.db.tmp staging files), the  *)
(* engine handles of backend/db.js and the session variables, request      *)
(* handlers and auto-save timer of backend/server.js.                      *)
(*                                                                         *)
(* Node runs every handler to completion on one thread: a synchronous      *)
(* handler is one action.  openDatabase awaits deriveKey, so an unlock     *)
(* request is two actions (before and after the await).  The process can   *)
(* die between any two filesystem calls: the Crash actions take the        *)
(* intermediate filesystem states of a handler.  Files are POSIX files:    *)
(* unlinking a path leaves an open handle on the old inode, so a staging   *)
(* file carries the generation (inode) it was written as.                  *)
(***************************************************************************)
EXTENDS Integers, Sequences, FiniteSets, TLC

\* ----------------------------------------------------------------- bounds
MaxOpens == 2
MaxWrites == 2
MaxCreating == 2
MaxPayload == 4
MaxDays == 3
MaxName == 3
\* input events and day navigations of one browser session
MaxInputs == 3
MaxLoads == 2

\* -------------------------------------------------------------- constants
SaltLen == 16

\* null for a path and for a handle; an absent file, a file of bytes b
NullPath == <<>>
NullHandle == 0
NoFile == <<>>
File(b) == <<b>>
Bytes(f) == f[1]

\* permission bits: owner-only, or what the process umask leaves of the bits a
\* file is created with when the program names none (0644 under the usual 022)
ModeOwnerOnly == "0600"
ModeDefault == "default"

\* [a-zA-Z0-9_-] within the characters drawn for names
SafeChars == {"a", "_", "-"}
Names == {<<"a">>, <<"_">>, <<"/">>}
Passphrases == {1, 2}
SaltBytes == {1, 2}

\* ------------------------------------------------------- pure functions
RECURSIVE SumSeq(_)
SumSeq(s) == IF s = <<>> THEN 0 ELSE Head(s) + SumSeq(Tail(s))

Take(s, n) == SubSeq(s, 1, IF n < Len(s) THEN n ELSE Len(s))
Drop(s, n) == SubSeq(s, n + 1, Len(s))

\* the replace with '.' and '/' let through
getJournalPathKeepsDots(journalName) ==
    [i \in 1..Len(journalName) |->
        IF journalName[i] \in SafeChars \cup {".", "/"} THEN journalName[i] ELSE "_"]

\* journalName.replace(/[^a-zA-Z0-9_-]/g, '_'); the path is JOURNAL_DIR/<safeName>.db
getJournalPath(journalName) ==
    [i \in 1..Len(journalName) |->
        IF journalName[i] \in SafeChars THEN journalName[i] ELSE "_"]

Paths == {getJournalPath(n) : n \in Names}

\* JOURNAL_DIR as its segments; a file name is a sequence of characters
JOURNAL_DIR == <<"~", ".journal">>
DbExt == <<".", "d", "b">>
\* the segments of a relative path: the stretches between its '/'
RECURSIVE Segments(_, _)
Segments(chars, seg) ==
    IF chars = <<>> THEN <<seg>>
    ELSE IF Head(chars) = "/" THEN <<seg>> \o Segments(Tail(chars), <<>>)
    ELSE Segments(Tail(chars), Append(seg, Head(chars)))
\* path.join normalises: '' and '.' are dropped, '..' climbs one directory
RECURSIVE Normalize(_, _)
Normalize(base, segs) ==
    IF segs = <<>> THEN base
    ELSE IF Head(segs) \in {<<>>, <<".">>} THEN Normalize(base, Tail(segs))
    ELSE IF Head(segs) = <<".", ".">>
         THEN Normalize(IF base = <<>> THEN base ELSE SubSeq(base, 1, Len(base) - 1), Tail(segs))
    ELSE Normalize(Append(base, Head(segs)), Tail(segs))
\* path.join(JOURNAL_DIR, `${safeName}.db`)
pathJoin(dir, file) == Normalize(dir, Segments(file, <<>>))
resolvedPath(journalName) == pathJoin(JOURNAL_DIR, getJournalPath(journalName) \o DbExt)

\* argon2.hash(passphrase, {type, memoryCost, timeCost, parallelism, hashLength,
\* salt, raw: true}): a function of the passphrase, the salt and every option,
\* injective on the inputs drawn here
Argon2Types == [argon2d |-> 0, argon2i |-> 1, argon2id |-> 2]
argon2Hash(passphrase, options, salt) ==
    (passphrase * 31 + SumSeq(salt) + Argon2Types[options.type] + options.memoryCost
        + options.timeCost + options.parallelism + options.hashLength) % 256
\* the options both copies of deriveKey pass
Argon2Options ==
    [type |-> "argon2id", memoryCost |-> 65536, timeCost |-> 3, parallelism |-> 4,
     hashLength |-> 32]

\* argon2id run with another timeCost: another hash of the same inputs
deriveKeyOtherCost(passphrase, salt) ==
    argon2Hash(passphrase, [Argon2Options EXCEPT !.timeCost = 4], salt)
\* the bootstrap copy run as argon2i
deriveKeyBootstrapArgon2i(passphrase, salt) ==
    argon2Hash(passphrase, [Argon2Options EXCEPT !.type = "argon2i"], salt)
\* deriveKey(passphrase, salt) of db.js
deriveKey(passphrase, salt) ==
    argon2Hash(passphrase,
               [type |-> "argon2id", memoryCost |-> 65536, timeCost |-> 3,
                parallelism |-> 4, hashLength |-> 32], salt)
\* db-bootstrap.js's own copy of deriveKey
deriveKeyBootstrap(passphrase, salt) ==
    argon2Hash(passphrase,
               [type |-> "argon2id", memoryCost |-> 65536, timeCost |-> 3,
                parallelism |-> 4, hashLength |-> 32], salt)

\* one byte too few taken for the salt
splitSaltShort(fileData) == Take(fileData, SaltLen - 1)
\* fileData.slice(0, 16) and fileData.slice(16)
splitSalt(fileData) == Take(fileData, SaltLen)
splitPayload(fileData) == Drop(fileData, SaltLen)
\* Buffer.concat([salt, dbData])
joinContainer(salt, dbData) == salt \o dbData

\* the check value of an encrypted page (its HMAC under the key): one value per
\* key, and none of them a key
pageMac(key) == 256 + key
\* a first page that carries the key itself
EncodeDbKeyInClear(key, recs) == <<key>> \o recs
\* The engine's file image: a first page only the key opens, then the records.
\* A zero-length file is a valid empty database under any key.
EncodeDb(key, recs) == <<pageMac(key)>> \o recs
Probe(image, key) == image = <<>> \/ image[1] = pageMac(key)
Recs(image) == IF image = <<>> THEN <<>> ELSE Tail(image)
EngineWrite(image, key, rec) ==
    IF image = <<>> THEN EncodeDb(key, <<rec>>) ELSE Append(image, rec)

RecSet(image) == {Recs(image)[i] : i \in 1..Len(Recs(image))}

randomSalt(b) == [i \in 1..SaltLen |-> b]

\* createJournal: new Database(dbPath) creates the file, fs.writeFileSync
\* rewrites it in place; neither names permission bits and nothing chmods it
createJournalMode == ModeDefault

\* createJournal: the file the engine wrote, re-written with the salt in front
createJournalImage(passphrase, salt) ==
    joinContainer(salt, EncodeDb(deriveKeyBootstrap(passphrase, salt), <<>>))

\* ---------------------------------------------------------------- state
VARIABLES
    canon,            \* path -> bytes of <path>.db, or NoFile
    staging,          \* path -> [gen, data] of <path>.db.tmp, or NoFile
    alive,            \* the server process is running
    dbConnection,     \* id of the session's engine handle, or Null
    dbPath,           \* path of the unlocked vault, or Null
    isUnlocked,
    autoSaveInterval, \* TRUE when the variable holds the 30 s interval timer
    timers,           \* number of interval timers scheduled in the event loop
    handles,          \* open engine handles: [id, path, gen, key]
    inflight,         \* unlock requests awaiting deriveKey: [id, path, pass, salt]
    resp,             \* request id -> response of POST /api/unlock
    busyArrivals,     \* ids of unlock requests that arrived while the vault was Unlocking/Unlocked
    overlap,          \* pairs of unlock requests, same vault and passphrase, in flight together
    live,             \* path -> records acknowledged and not lost to a crash
    durable,          \* path -> value of live at the last completed checkpoint
    lastOp,           \* the handler that ran last, and its vault
    nOpens, nWrites,
    crashed,          \* the process has died at least once
    ioFailed,         \* a filesystem call of a checkpoint has failed at least once
    creating,         \* POST /api/journals requests awaiting deriveKey: [path, pass, salt]
    fn,               \* a pure function applied to drawn inputs, see NoFn
    canonMode,        \* path -> permission bits of <path>.db, "none" when absent
    journal,          \* days and persistent_goals tables of the unlocked journal
    client            \* the browser's FloatingWindowManager, see NoClient

procVars == <<alive, dbConnection, dbPath, isUnlocked, autoSaveInterval, timers, handles,
             inflight>>
fsVars == <<canon, staging>>
vars == <<canon, staging, alive, dbConnection, dbPath, isUnlocked, autoSaveInterval, timers,
          handles, inflight, resp, busyArrivals, overlap, live, durable, lastOp,
          nOpens, nWrites, crashed, ioFailed, creating, fn, canonMode, journal, client>>
\* what a handler of the session that meets no filesystem failure leaves alone
auxVars == <<ioFailed, creating, fn, canonMode, journal, client>>

Op(o, p) == [op |-> o, path |-> p]
\* ... and what it answered
OpR(o, p, r) == [op |-> o, path |-> p, res |-> r]
\* dates a day is asked for, in calendar order; no row in either table
Dates == 1..MaxDays
NoJournal == [days |-> [d \in Dates |-> 0], goals |-> [d \in Dates |-> <<>>]]
\* no function applied: the inputs (salt, payload; name; passphrase) and the
\* results (file, outSalt, outPayload; path; keys) of the functions below
NoFn == [op |-> "none", salt |-> <<>>, payload |-> <<>>, file |-> <<>>,
         outSalt |-> <<>>, outPayload |-> <<>>, name |-> <<>>, path |-> <<>>,
         pass |-> 0, keys |-> <<>>]

\* days the browser shows and the windows the backend holds for each of them
ClientDays == {1, 2}
WindowIds == {1, 2, 3}
WindowsOfDay == [d \in ClientDays |-> IF d = 1 THEN {1, 2} ELSE {3}]
\* new FloatingWindowManager(): no window shown, no day, no save timer.  pending
\* is the browser's list of armed timeouts, each with the (windowId, content) its
\* callback closed over; fetches are the api.getWindows calls awaited; typed is
\* the value the user last typed into a window's textarea (0: nothing typed) and
\* sent the contents of the api.updateWindow requests issued for it, in order
NoClient == [windows |-> {}, currentDayId |-> 0, saveTimers |-> [w \in WindowIds |-> 0],
             pending |-> {}, fetches |-> {}, typed |-> [w \in WindowIds |-> 0],
             sent |-> [w \in WindowIds |-> <<>>], nInputs |-> 0, nLoads |-> 0]

\* the vault directory at server start: any subset of the vaults below, each as
\* createJournal left it (passphrase it was created with, byte of its random salt)
CreatedWith == [q \in Paths |-> IF q = <<"a">> THEN [pass |-> 1, salt |-> 1]
                                               ELSE [pass |-> 2, salt |-> 2]]

Init ==
    /\ canon \in {c \in [Paths -> {NoFile} \cup {File(createJournalImage(CreatedWith[q].pass,
                                              randomSalt(CreatedWith[q].salt))) : q \in Paths}] :
                     \A q \in Paths : c[q] \in {NoFile, File(createJournalImage(CreatedWith[q].pass,
                                              randomSalt(CreatedWith[q].salt)))}}
    /\ staging = [p \in Paths |-> NoFile]
    /\ alive = TRUE
    /\ dbConnection = NullHandle
    /\ dbPath = NullPath
    /\ isUnlocked = FALSE
    /\ autoSaveInterval = FALSE
    /\ timers = 0
    /\ handles = {}
    /\ inflight = {}
    /\ resp = [i \in 1..MaxOpens |-> "none"]
    /\ busyArrivals = {}
    /\ overlap = {}
    /\ live = [p \in Paths |-> {}]
    /\ durable = [p \in Paths |-> {}]
    /\ lastOp = Op("init", NullPath)
    /\ nOpens = 0
    /\ nWrites = 0
    /\ crashed = FALSE
    /\ ioFailed = FALSE
    /\ creating = {}
    /\ fn = NoFn
    /\ canonMode = [p \in Paths |-> IF canon[p] = NoFile THEN "none" ELSE createJournalMode]
    /\ journal = NoJournal
    /\ client = NoClient

\* ------------------------------------------------------ filesystem steps
\* The vault directory is fs = [canon, staging]; each operator below is the
\* filesystem effect of one stretch of code.
FS(cn, st) == [canon |-> cn, staging |-> st]

\* the existence check missing: the absent file read as an empty one
openDatabasePrecheckMissingAsEmpty(fs, path) ==
    IF fs.canon[path] = NoFile THEN "Corrupt"
    ELSE IF Len(Bytes(fs.canon[path])) < SaltLen THEN "Corrupt"
    ELSE "ok"

\* fileData.length <= 16 where the code has <
openDatabasePrecheckOffByOne(fs, path) ==
    IF fs.canon[path] = NoFile THEN "NotFound"
    ELSE IF Len(Bytes(fs.canon[path])) <= SaltLen THEN "Corrupt"
    ELSE "ok"

\* openDatabase before it stages anything: fs.existsSync(dbPath), then
\* fileData.length < 16
openDatabasePrecheck(fs, path) ==
    IF fs.canon[path] = NoFile THEN "NotFound"
    ELSE IF Len(Bytes(fs.canon[path])) < SaltLen THEN "Corrupt"
    ELSE "ok"

\* the staging that keeps a file it finds at <path>.db.tmp
openDatabaseStageKeepsStale(fs, path, gen) ==
    IF fs.staging[path] # NoFile
    THEN fs
    ELSE FS(fs.canon,
            [fs.staging EXCEPT ![path] =
                File([gen |-> gen, data |-> splitPayload(Bytes(fs.canon[path])),
                      mode |-> ModeOwnerOnly])])

\* openDatabase, the staging: salt/dbData split, the stale <path>.db.tmp unlinked,
\* fs.writeFileSync(tempDbPath, dbData) (a new inode, generation gen), chmod 0o600
openDatabaseStage(fs, path, gen) ==
    FS(fs.canon,
       [fs.staging EXCEPT ![path] =
           File([gen |-> gen, data |-> splitPayload(Bytes(fs.canon[path])),
                 mode |-> ModeOwnerOnly])])

\* the catch block unlinking dbPath where the code unlinks tempDbPath
probeFailCleanupWrongFile(fs, path) ==
    FS([fs.canon EXCEPT ![path] = NoFile], fs.staging)

\* openDatabase, the probe's catch block: db.close(); fs.unlinkSync(tempDbPath); throw
probeFailCleanup(fs, path) ==
    FS(fs.canon, [fs.staging EXCEPT ![path] = NoFile])

\* the salt sliced off the staged file where the code slices the canonical one
dbWithHeaderSaltFromStaged(fs, path) ==
    joinContainer(splitSalt(Bytes(fs.staging[path]).data), Bytes(fs.staging[path]).data)

\* dbData = read(tempDbPath); salt = read(dbPath).slice(0, 16); Buffer.concat
dbWithHeader(fs, path) ==
    joinContainer(splitSalt(Bytes(fs.canon[path])), Bytes(fs.staging[path]).data)

\* fs.writeFileSync(file, data) opens the file with O_TRUNC and writes into it:
\* the contents the file can have while the call runs, the last one when it returns
writeFileSyncStates(data) == [k \in 1..(Len(data) + 1) |-> Take(data, k - 1)]
\* the states of writeFileSyncStates a death is taken in: every file shorter than
\* the header is refused by openDatabase alike, so of those the empty one and the
\* longest stand for all
CrashPoints(data) == {k \in 1..Len(data) : k = 1 \/ k >= SaltLen}

\* a tick that ends as closeDatabase does, unlinking the staging file
autoSaveFsUnlinks(fs, path) ==
    IF fs.staging[path] # NoFile
    THEN FS([fs.canon EXCEPT ![path] = File(dbWithHeader(fs, path))],
            [fs.staging EXCEPT ![path] = NoFile])
    ELSE fs

\* the tick's body once its guard holds: existsSync(tempDbPath), then the merge
autoSaveFs(fs, path) ==
    IF fs.staging[path] # NoFile
    THEN FS([fs.canon EXCEPT ![path] = File(dbWithHeader(fs, path))], fs.staging)
    ELSE fs

\* closeDatabase after db.close(): existsSync(tempDbPath), the merge, the unlink
closeDatabaseFs(fs, path) ==
    IF fs.staging[path] # NoFile
    THEN FS([fs.canon EXCEPT ![path] = File(dbWithHeader(fs, path))],
            [fs.staging EXCEPT ![path] = NoFile])
    ELSE fs

HandleOf(id) == CHOOSE h \in handles : h.id = id
\* the handle's inode is the file now at <path>.db.tmp
Attached(h) == staging[h.path] # NoFile /\ Bytes(staging[h.path]).gen = h.gen
Now == FS(canon, staging)

\* ------------------------------------------------------ POST /api/unlock
\* openDatabase up to `await deriveKey`
UnlockBegin(journalName, passphrase) ==
    LET id == nOpens + 1
        path == getJournalPath(journalName)
        busy == (isUnlocked /\ dbPath = path) \/ (\E q \in inflight : q.path = path)
    IN  /\ alive
        /\ nOpens < MaxOpens
        /\ nOpens' = id
        /\ busyArrivals' = IF busy THEN busyArrivals \cup {id} ELSE busyArrivals
        /\ IF openDatabasePrecheck(Now, path) # "ok"
           THEN /\ resp' = [resp EXCEPT ![id] = openDatabasePrecheck(Now, path)]
                /\ lastOp' = Op("unlockFail", path)
                /\ UNCHANGED <<canon, staging, inflight, overlap>>
           ELSE /\ canon' = openDatabaseStage(Now, path, id).canon
                /\ staging' = openDatabaseStage(Now, path, id).staging
                /\ inflight' = inflight \cup
                       {[id |-> id, path |-> path, pass |-> passphrase,
                         salt |-> splitSalt(Bytes(canon[path]))]}
                /\ overlap' = overlap \cup
                       {<<q.id, id>> : q \in {x \in inflight :
                                                 x.path = path /\ x.pass = passphrase}}
                /\ resp' = [resp EXCEPT ![id] = "pending"]
                /\ lastOp' = Op("unlockBegin", path)
        /\ UNCHANGED <<alive, dbConnection, dbPath, isUnlocked, autoSaveInterval, timers,
                       handles, live, durable, nWrites, crashed>>
        /\ UNCHANGED auxVars

\* argon2.hash rejects (allocation failure): openDatabase throws out of the await,
\* the handler answers 401
UnlockDeriveFails(r) ==
    /\ alive
    /\ r \in inflight
    /\ inflight' = inflight \ {r}
    /\ resp' = [resp EXCEPT ![r.id] = "Derivation"]
    /\ lastOp' = Op("unlockFail", r.path)
    /\ UNCHANGED <<canon, staging, alive, dbConnection, dbPath, isUnlocked, autoSaveInterval,
                   timers, handles, busyArrivals, overlap, live, durable, nOpens, nWrites, crashed>>
    /\ UNCHANGED auxVars

\* startAutoSave(): clearInterval on the old timer if any, one new setInterval
startAutoSave(timer) == TRUE
\* the clearInterval forgotten: the timer stays scheduled
stopAutoSaveKeepsTimer(timer) == timer
\* stopAutoSave(): clearInterval, autoSaveInterval = null
stopAutoSave(timer) == FALSE
\* setInterval without the clearInterval of the timer the variable holds
timersAfterStartNoClear(n, timer) == n + 1
\* the timers scheduled after startAutoSave: the one the variable holds is
\* cleared, one is set; after stopAutoSave: the one the variable holds is cleared
timersAfterStart(n, timer) == (IF timer THEN n - 1 ELSE n) + 1
timersAfterStop(n, timer) == IF timer THEN n - 1 ELSE n

\* openDatabase after the await, and the rest of the handler
UnlockFinish(r) ==
    LET key == deriveKey(r.pass, r.salt)
        f == staging[r.path]
    IN  /\ alive
        /\ r \in inflight
        /\ inflight' = inflight \ {r}
        /\ IF f = NoFile
           THEN \* new Database(tempDbPath, {fileMustExist: true}) throws
                /\ resp' = [resp EXCEPT ![r.id] = "EngineOpen"]
                /\ lastOp' = Op("unlockFail", r.path)
                /\ UNCHANGED <<canon, staging, dbConnection, dbPath, isUnlocked,
                               autoSaveInterval, timers, handles>>
           ELSE IF ~Probe(Bytes(f).data, key)
           THEN /\ canon' = probeFailCleanup(Now, r.path).canon
                /\ staging' = probeFailCleanup(Now, r.path).staging
                /\ resp' = [resp EXCEPT ![r.id] = "WrongPass"]
                /\ lastOp' = Op("unlockFail", r.path)
                /\ UNCHANGED <<dbConnection, dbPath, isUnlocked, autoSaveInterval, timers,
                               handles>>
           ELSE /\ handles' = handles \cup
                       {[id |-> r.id, path |-> r.path, gen |-> Bytes(f).gen, key |-> key]}
                /\ dbConnection' = r.id
                /\ dbPath' = r.path
                /\ isUnlocked' = TRUE
                /\ autoSaveInterval' = startAutoSave(autoSaveInterval)
                /\ timers' = timersAfterStart(timers, autoSaveInterval)
                /\ resp' = [resp EXCEPT ![r.id] = "ok"]
                /\ lastOp' = Op("unlockOk", r.path)
                /\ UNCHANGED <<canon, staging>>
        /\ UNCHANGED <<alive, busyArrivals, overlap, live, durable, nOpens, nWrites, crashed>>
        /\ UNCHANGED auxVars

\* -------------------------------------------------------- data routes
\* any route behind requireUnlock that commits a row through dbConnection
\* (journal_mode DELETE: a commit is in the database file when run() returns);
\* a handle whose file was unlinked writes into an inode no path names
WriteRecord ==
    /\ alive
    /\ isUnlocked /\ dbConnection # NullHandle
    /\ nWrites < MaxWrites
    /\ LET h == HandleOf(dbConnection)
           rec == nWrites + 1
       IN  /\ staging' = IF Attached(h)
                         THEN [staging EXCEPT ![h.path][1].data = EngineWrite(@, h.key, rec)]
                         ELSE staging
           /\ live' = [live EXCEPT ![h.path] = @ \cup {rec}]
           /\ nWrites' = rec
           /\ lastOp' = Op("write", h.path)
    /\ UNCHANGED <<canon, procVars, resp, busyArrivals, overlap, durable, nOpens, crashed>>
    /\ UNCHANGED auxVars

\* the middleware with its check left out
requireUnlockAlwaysNext(unlocked, connection) == "next"

\* requireUnlock: 401 unless isUnlocked and dbConnection are both set
requireUnlock(unlocked, connection) ==
    IF ~unlocked \/ connection = NullHandle THEN "401" ELSE "next"

\* a data route (days, goals, windows, prompts) that reads: the middleware, then the
\* handler's query on dbConnection inside its try/catch (a query on a null
\* dbConnection throws and is answered 500)
DataRequest ==
    /\ alive
    /\ lastOp' = IF requireUnlock(isUnlocked, dbConnection) = "401"
                 THEN OpR("data", NullPath, "401")
                 ELSE IF dbConnection = NullHandle
                      THEN OpR("data", NullPath, "500")
                      ELSE OpR("data", HandleOf(dbConnection).path, "200")
    /\ UNCHANGED <<canon, staging, procVars, resp, busyArrivals, overlap, live, durable,
                   nOpens, nWrites, crashed>>
    /\ UNCHANGED auxVars

\* ... and the calls it made on the engine and the filesystem, in order
OpC(o, p, calls) == [op |-> o, path |-> p, calls |-> calls]
\* the merge both the tick and closeDatabase contain
mergeCalls(fs, path) ==
    IF fs.staging[path] # NoFile
    THEN <<"existsSync", "readStaged", "readCanon", "writeCanon">>
    ELSE <<"existsSync">>
\* the interval callback: the merge and nothing before it
autoSaveCalls(fs, path) == mergeCalls(fs, path)
\* closeDatabase: PRAGMA wal_checkpoint(TRUNCATE), db.close(), the merge, the unlink
closeDatabaseCalls(fs, path) ==
    <<"wal_checkpoint", "close">> \o mergeCalls(fs, path)
        \o (IF fs.staging[path] # NoFile THEN <<"unlink">> ELSE <<>>)

\* ------------------------------------------------------ auto-save timer
TickGuard == dbConnection # NullHandle /\ isUnlocked /\ dbPath # NullPath

AutoSaveTick ==
    /\ alive
    /\ autoSaveInterval
    /\ IF TickGuard
       THEN /\ canon' = autoSaveFs(Now, dbPath).canon
            /\ staging' = autoSaveFs(Now, dbPath).staging
            /\ durable' = [durable EXCEPT ![dbPath] = live[dbPath]]
            /\ lastOp' = OpC("tick", dbPath, autoSaveCalls(Now, dbPath))
       ELSE /\ UNCHANGED <<canon, staging, durable>>
            /\ lastOp' = Op("tick", NullPath)
    /\ UNCHANGED <<procVars, resp, busyArrivals, overlap, live, nOpens, nWrites, crashed>>
    /\ UNCHANGED auxVars

\* -------------------------------------------------------- POST /api/lock
\* the lock handler with dbPath = null left out
LockKeepsPath ==
    /\ alive
    /\ autoSaveInterval' = stopAutoSave(autoSaveInterval)
    /\ timers' = timersAfterStop(timers, autoSaveInterval)
    /\ IF dbConnection # NullHandle
       THEN \* closeDatabase(dbConnection, dbPath)
            /\ handles' = handles \ {HandleOf(dbConnection)}
            /\ canon' = closeDatabaseFs(Now, dbPath).canon
            /\ staging' = closeDatabaseFs(Now, dbPath).staging
            /\ durable' = [durable EXCEPT ![dbPath] = live[dbPath]]
            /\ lastOp' = OpC("lock", dbPath, closeDatabaseCalls(Now, dbPath))
       ELSE /\ UNCHANGED <<handles, canon, staging, durable>>
            /\ lastOp' = Op("lock", NullPath)
    /\ dbConnection' = NullHandle
    /\ dbPath' = dbPath
    /\ isUnlocked' = FALSE
    /\ UNCHANGED <<alive, inflight, resp, busyArrivals, overlap, live, nOpens, nWrites, crashed>>
    /\ UNCHANGED auxVars

\* POST /api/lock
Lock ==
    /\ alive
    /\ autoSaveInterval' = stopAutoSave(autoSaveInterval)
    /\ timers' = timersAfterStop(timers, autoSaveInterval)
    /\ IF dbConnection # NullHandle
       THEN \* closeDatabase(dbConnection, dbPath)
            /\ handles' = handles \ {HandleOf(dbConnection)}
            /\ canon' = closeDatabaseFs(Now, dbPath).canon
            /\ staging' = closeDatabaseFs(Now, dbPath).staging
            /\ durable' = [durable EXCEPT ![dbPath] = live[dbPath]]
            /\ lastOp' = OpC("lock", dbPath, closeDatabaseCalls(Now, dbPath))
       ELSE /\ UNCHANGED <<handles, canon, staging, durable>>
            /\ lastOp' = Op("lock", NullPath)
    /\ dbConnection' = NullHandle
    /\ dbPath' = NullPath
    /\ isUnlocked' = FALSE
    /\ UNCHANGED <<alive, inflight, resp, busyArrivals, overlap, live, nOpens, nWrites, crashed>>
    /\ UNCHANGED auxVars

\* ------------------------------------------------- process death, restart
\* the process is gone and its memory with it; dur is what the last completed
\* checkpoint holds
Exited(dur) ==
    /\ alive' = FALSE
    /\ dbConnection' = NullHandle
    /\ dbPath' = NullPath
    /\ isUnlocked' = FALSE
    /\ autoSaveInterval' = FALSE
    /\ timers' = 0
    /\ handles' = {}
    /\ inflight' = {}
    /\ durable' = dur
    /\ live' = dur
    /\ creating' = {}
    /\ UNCHANGED <<resp, busyArrivals, overlap, nOpens, nWrites, ioFailed, fn, journal, client>>

\* ... by a crash
Dead(dur) == Exited(dur) /\ crashed' = TRUE /\ UNCHANGED canonMode

\* SIGKILL, power loss, ... while no handler is running
Crash ==
    /\ alive
    /\ Dead(durable)
    /\ lastOp' = Op("crash", NullPath)
    /\ UNCHANGED fsVars

\* ... inside the tick's fs.writeFileSync(dbPath, dbWithHeader)
CrashInTick ==
    /\ alive
    /\ autoSaveInterval /\ TickGuard
    /\ staging[dbPath] # NoFile
    /\ \E k \in CrashPoints(dbWithHeader(Now, dbPath)) :
          canon' = [canon EXCEPT ![dbPath] =
                       File(writeFileSyncStates(dbWithHeader(Now, dbPath))[k])]
    /\ Dead(durable)
    /\ lastOp' = Op("crashInTick", dbPath)
    /\ UNCHANGED staging

\* ... inside closeDatabase: in its fs.writeFileSync(dbPath, dbWithHeader), or
\* after it and before fs.unlinkSync(tempDbPath)
CrashInLock ==
    /\ alive
    /\ dbConnection # NullHandle
    /\ staging[dbPath] # NoFile
    /\ \E k \in CrashPoints(dbWithHeader(Now, dbPath)) \cup {Len(dbWithHeader(Now, dbPath)) + 1} :
          /\ canon' = [canon EXCEPT ![dbPath] =
                          File(writeFileSyncStates(dbWithHeader(Now, dbPath))[k])]
          /\ Dead(IF k = Len(dbWithHeader(Now, dbPath)) + 1
                  THEN [durable EXCEPT ![dbPath] = live[dbPath]]
                  ELSE durable)
    /\ lastOp' = Op("crashInLock", dbPath)
    /\ UNCHANGED staging

\* ... inside openDatabase's staging of an unlock request: in
\* fs.writeFileSync(tempDbPath, dbData), which creates the file with the default
\* bits, or after it and before fs.chmodSync(tempDbPath, 0o600)
CrashInStage(journalName) ==
    LET path == getJournalPath(journalName)
        dbData == splitPayload(Bytes(canon[path]))
    IN  /\ alive
        /\ nOpens < MaxOpens
        /\ openDatabasePrecheck(Now, path) = "ok"
        /\ \E k \in DOMAIN writeFileSyncStates(dbData) :
              staging' = [staging EXCEPT ![path] =
                             File([gen |-> nOpens + 1,
                                   data |-> writeFileSyncStates(dbData)[k],
                                   mode |-> ModeDefault])]
        /\ Dead(durable)
        /\ lastOp' = Op("crashInStage", path)
        /\ UNCHANGED canon

\* ------------------------------------------- a filesystem call that fails
\* The merge of the tick or of closeDatabase throws: a read fails or the file
\* cannot be opened for writing (point 0, the canonical file as it was), or the
\* write stops part way (ENOSPC, EIO) after O_TRUNC emptied the file.  A run
\* of the model meets one such failure.
IOFailPoints(data) == {0} \cup CrashPoints(data)
mergeFailed(fs, path, k) ==
    IF k = 0 THEN fs.canon
    ELSE [fs.canon EXCEPT ![path] = File(writeFileSyncStates(dbWithHeader(fs, path))[k])]

\* the tick's catch block: console.error('Auto-save error:', err), nothing else
TickIOFails ==
    /\ alive /\ ~ioFailed
    /\ autoSaveInterval /\ TickGuard
    /\ staging[dbPath] # NoFile
    /\ \E k \in IOFailPoints(dbWithHeader(Now, dbPath)) : canon' = mergeFailed(Now, dbPath, k)
    /\ ioFailed' = TRUE
    /\ lastOp' = OpR("tickIOFail", dbPath, "logged")
    /\ UNCHANGED <<staging, procVars, resp, busyArrivals, overlap, live, durable,
                   nOpens, nWrites, crashed, creating, fn, canonMode, journal, client>>

\* closeDatabase's catch block: console.error('Error closing database:', err); the
\* throw comes after db.close(), from the merge or from fs.unlinkSync(tempDbPath)
\* (the last point: the write complete, the staging file still there). The
\* handler goes on and answers {success: true}.
LockIOFails ==
    /\ alive /\ ~ioFailed
    /\ dbConnection # NullHandle
    /\ staging[dbPath] # NoFile
    /\ \E k \in IOFailPoints(dbWithHeader(Now, dbPath)) \cup {Len(dbWithHeader(Now, dbPath)) + 1} :
          /\ canon' = mergeFailed(Now, dbPath, k)
          /\ durable' = IF k = Len(dbWithHeader(Now, dbPath)) + 1
                        THEN [durable EXCEPT ![dbPath] = live[dbPath]]
                        ELSE durable
    /\ autoSaveInterval' = stopAutoSave(autoSaveInterval)
    /\ timers' = timersAfterStop(timers, autoSaveInterval)
    /\ handles' = handles \ {HandleOf(dbConnection)}
    /\ dbConnection' = NullHandle
    /\ dbPath' = NullPath
    /\ isUnlocked' = FALSE
    /\ ioFailed' = TRUE
    /\ lastOp' = OpR("lockIOFail", dbPath, "success")
    /\ UNCHANGED <<staging, alive, inflight, resp, busyArrivals, overlap, live,
                   nOpens, nWrites, crashed, creating, fn, canonMode, journal, client>>

\* ------------------------------------------------ SIGINT, SIGTERM, SIGHUP
\* shutdown(): stopAutoSave(); closeDatabase(dbConnection, dbPath) if there is
\* a connection; process.exit(0)
Shutdown ==
    /\ alive
    /\ IF dbConnection # NullHandle
       THEN /\ canon' = closeDatabaseFs(Now, dbPath).canon
            /\ staging' = closeDatabaseFs(Now, dbPath).staging
            /\ Exited([durable EXCEPT ![dbPath] = live[dbPath]])
            /\ lastOp' = OpC("shutdown", dbPath, closeDatabaseCalls(Now, dbPath))
       ELSE /\ UNCHANGED <<canon, staging>>
            /\ Exited(durable)
            /\ lastOp' = Op("shutdown", NullPath)
    /\ UNCHANGED <<crashed, canonMode>>

\* an uncaughtException handler that exits without closing the database
uncaughtExceptionFsNoClose(fs, path) == fs
\* the uncaughtException handler on the files: closeDatabase(dbConnection, dbPath)
uncaughtExceptionFs(fs, path) == closeDatabaseFs(fs, path)
\* ... its calls, and the status it exits with
OpX(o, p, calls, status) == [op |-> o, path |-> p, calls |-> calls, res |-> status]

\* process.on('uncaughtException'): console.error, closeDatabase if a connection
\* is set, process.exit(1); one synchronous stretch
UncaughtException ==
    /\ alive
    /\ IF dbConnection # NullHandle
       THEN /\ canon' = uncaughtExceptionFs(Now, dbPath).canon
            /\ staging' = uncaughtExceptionFs(Now, dbPath).staging
            /\ Exited([durable EXCEPT ![dbPath] = live[dbPath]])
            /\ lastOp' = OpX("uncaught", dbPath,
                             closeDatabaseCalls(Now, dbPath) \o <<"exit">>, 1)
       ELSE /\ UNCHANGED <<canon, staging>>
            /\ Exited(durable)
            /\ lastOp' = OpX("uncaught", NullPath, <<"exit">>, 1)
    /\ UNCHANGED <<crashed, canonMode>>

\* the server is started again: module-level state of server.js, files as left
Restart ==
    /\ ~alive
    /\ alive' = TRUE
    /\ lastOp' = Op("restart", NullPath)
    /\ UNCHANGED <<canon, staging, dbConnection, dbPath, isUnlocked, autoSaveInterval,
                   timers, handles, inflight, resp, busyArrivals, overlap, live, durable,
                   nOpens, nWrites, crashed>>
    /\ UNCHANGED auxVars

Next ==
    \/ \E n \in Names, p \in Passphrases : UnlockBegin(n, p)
    \/ \E r \in inflight : UnlockDeriveFails(r)
    \/ \E r \in inflight : UnlockFinish(r)
    \/ WriteRecord
    \/ AutoSaveTick
    \/ Lock
    \/ Crash
    \/ CrashInTick
    \/ CrashInLock
    \/ Restart

Spec == Init /\ [][Next]_vars

\* a server that is never killed but stopped by a signal, and started again
NextStop ==
    \/ \E n \in Names, p \in Passphrases : UnlockBegin(n, p)
    \/ \E r \in inflight : UnlockDeriveFails(r)
    \/ \E r \in inflight : UnlockFinish(r)
    \/ WriteRecord
    \/ DataRequest
    \/ AutoSaveTick
    \/ Lock
    \/ Shutdown
    \/ Restart

SpecStop == Init /\ [][NextStop]_vars

\* a server that an uncaught exception can end, and that is started again
NextUncaught ==
    \/ \E n \in Names, p \in Passphrases : UnlockBegin(n, p)
    \/ \E r \in inflight : UnlockDeriveFails(r)
    \/ \E r \in inflight : UnlockFinish(r)
    \/ WriteRecord
    \/ AutoSaveTick
    \/ Lock
    \/ UncaughtException
    \/ Restart

SpecUncaught == Init /\ [][NextUncaught]_vars

\* a server that can be killed while an unlock request stages the payload
NextStage ==
    \/ \E n \in Names, p \in Passphrases : UnlockBegin(n, p)
    \/ \E r \in inflight : UnlockDeriveFails(r)
    \/ \E r \in inflight : UnlockFinish(r)
    \/ WriteRecord
    \/ Lock
    \/ \E n \in Names : CrashInStage(n)
    \/ Restart

SpecStage == Init /\ [][NextStage]_vars

\* one server process, never killed, whose checkpoints can meet a failing
\* filesystem call
NextIO ==
    \/ \E n \in Names, p \in Passphrases : UnlockBegin(n, p)
    \/ \E r \in inflight : UnlockDeriveFails(r)
    \/ \E r \in inflight : UnlockFinish(r)
    \/ WriteRecord
    \/ AutoSaveTick
    \/ Lock
    \/ TickIOFails
    \/ LockIOFails

SpecIO == Init /\ [][NextIO]_vars
\* ---------------------------------------------------- POST /api/journals
\* the existence check made on the staging path
createJournalPrecheckStaging(fs, path) ==
    IF fs.staging[path] # NoFile THEN "AlreadyExists" ELSE "ok"

\* createJournal: if (fs.existsSync(dbPath)) throw ... already exists
createJournalPrecheck(fs, path) ==
    IF fs.canon[path] # NoFile THEN "AlreadyExists" ELSE "ok"

\* createJournal up to `await deriveKey`; b is the byte crypto.randomBytes draws
CreateBegin(journalName, passphrase, b) ==
    LET path == getJournalPath(journalName)
        c == [path |-> path, pass |-> passphrase, salt |-> randomSalt(b)]
    IN  /\ alive
        /\ IF createJournalPrecheck(Now, path) # "ok"
           THEN /\ creating' = creating
                /\ lastOp' = OpR("createBegin", path, createJournalPrecheck(Now, path))
           ELSE /\ Cardinality(creating) < MaxCreating
                /\ c \notin creating
                /\ creating' = creating \cup {c}
                /\ lastOp' = OpR("createBegin", path, "pending")
        /\ UNCHANGED <<canon, staging, procVars, resp, busyArrivals, overlap, live, durable,
                       nOpens, nWrites, crashed, ioFailed, fn, canonMode, journal, client>>

\* argon2.hash rejects: createJournal throws out of the await, the handler answers 400
CreateDeriveFails(c) ==
    /\ alive
    /\ c \in creating
    /\ creating' = creating \ {c}
    /\ lastOp' = OpR("createFail", c.path, "Derivation")
    /\ UNCHANGED <<canon, staging, procVars, resp, busyArrivals, overlap, live, durable,
                   nOpens, nWrites, crashed, ioFailed, fn, canonMode, journal, client>>

\* createJournal after the await.  new Database(dbPath) creates the file, or
\* opens the one that is there by now: a container is no database under any key
\* and the first statement that reads it throws (the handler answers 400).
CreateFinish(c) ==
    /\ alive
    /\ c \in creating
    /\ creating' = creating \ {c}
    /\ IF canon[c.path] # NoFile /\ Bytes(canon[c.path]) # <<>>
       THEN /\ lastOp' = OpR("createFail", c.path, "Engine")
            /\ UNCHANGED <<canon, canonMode>>
       ELSE /\ canon' = [canon EXCEPT ![c.path] = File(createJournalImage(c.pass, c.salt))]
            /\ canonMode' = [canonMode EXCEPT ![c.path] =
                                 IF canon[c.path] = NoFile THEN createJournalMode ELSE @]
            /\ lastOp' = OpR("createOk", c.path, "ok")
    /\ UNCHANGED <<staging, procVars, resp, busyArrivals, overlap, live, durable,
                   nOpens, nWrites, crashed, ioFailed, fn, journal, client>>

\* what createJournal has put at dbPath when it is cut short after new
\* Database(dbPath): the empty file the engine created, or the database the engine
\* wrote, without the salt in front
createJournalPartial(passphrase, salt) ==
    {<<>>, EncodeDb(deriveKeyBootstrap(passphrase, salt), <<>>)}

\* createJournal after the await, a throw after new Database(dbPath): the pragmas,
\* fs.readFileSync(schemaPath), db.exec(schema) or seedPrompts(db) fails; nothing
\* removes the file, the handler answers 400
CreateSetupFails(c) ==
    /\ alive
    /\ c \in creating
    /\ canon[c.path] = NoFile
    /\ creating' = creating \ {c}
    /\ \E image \in createJournalPartial(c.pass, c.salt) :
          canon' = [canon EXCEPT ![c.path] = File(image)]
    /\ canonMode' = [canonMode EXCEPT ![c.path] = createJournalMode]
    /\ lastOp' = OpR("createFail", c.path, "Setup")
    /\ UNCHANGED <<staging, procVars, resp, busyArrivals, overlap, live, durable,
                   nOpens, nWrites, crashed, ioFailed, fn, journal, client>>

\* the process dies inside createJournal after the await: before the final
\* fs.writeFileSync(dbPath, dbWithHeader), or inside it
CrashInCreate(c) ==
    /\ alive
    /\ c \in creating
    /\ canon[c.path] = NoFile
    /\ \E image \in createJournalPartial(c.pass, c.salt)
                     \cup {writeFileSyncStates(createJournalImage(c.pass, c.salt))[k] :
                             k \in CrashPoints(createJournalImage(c.pass, c.salt))} :
          canon' = [canon EXCEPT ![c.path] = File(image)]
    /\ canonMode' = [canonMode EXCEPT ![c.path] = createJournalMode]
    /\ Exited(durable)
    /\ crashed' = TRUE
    /\ lastOp' = Op("crashInCreate", c.path)
    /\ UNCHANGED staging

\* ------------------------------------------------- GET /api/journals
TmpExt == <<".", "t", "m", "p">>
\* fs.readdirSync(JOURNAL_DIR): the names of the files the directory holds
readdirSync(fs) ==
    {p \o DbExt : p \in {q \in Paths : fs.canon[q] # NoFile}}
        \cup {p \o DbExt \o TmpExt : p \in {q \in Paths : fs.staging[q] # NoFile}}
\* file.endsWith(suffix), file.slice(0, -n)
endsWith(file, suffix) ==
    /\ Len(file) >= Len(suffix)
    /\ SubSeq(file, Len(file) - Len(suffix) + 1, Len(file)) = suffix
sliceEnd(file, n) == SubSeq(file, 1, Len(file) - n)

\* the listing with its filter left out
listJournalsNoFilter(fs) == {sliceEnd(file, 3) : file \in readdirSync(fs)}

\* listJournals(): readdirSync, filter endsWith('.db'), slice(0, -3); the names
\* as a set, their order being the directory's
listJournals(fs) ==
    {sliceEnd(file, 3) : file \in {f \in readdirSync(fs) : endsWith(f, DbExt)}}

\* the route: res.json(listJournals())
ListJournals ==
    /\ alive
    /\ lastOp' = OpR("list", NullPath, listJournals(Now))
    /\ UNCHANGED <<canon, staging, procVars, resp, busyArrivals, overlap, live, durable,
                   nOpens, nWrites, crashed>>
    /\ UNCHANGED auxVars

\* one server process on which vaults are created, none of them opened
NextCreate ==
    \/ \E n \in Names, p \in Passphrases, b \in SaltBytes : CreateBegin(n, p, b)
    \/ \E c \in creating : CreateDeriveFails(c)
    \/ \E c \in creating : CreateFinish(c)

SpecCreate == Init /\ [][NextCreate]_vars

\* a server on which creates can fail after the engine made the file, or be cut
\* short by the death of the process
NextCreateFail ==
    \/ \E n \in Names, p \in Passphrases, b \in SaltBytes : CreateBegin(n, p, b)
    \/ \E c \in creating : CreateDeriveFails(c)
    \/ \E c \in creating : CreateFinish(c)
    \/ \E c \in creating : CreateSetupFails(c)
    \/ \E c \in creating : CrashInCreate(c)
    \/ Restart

SpecCreateFail == Init /\ [][NextCreateFail]_vars

\* a server on which vaults are created and listed, and which can be killed
\* while an unlock request stages a vault, leaving the staging file behind
NextList ==
    \/ \E n \in Names, p \in Passphrases, b \in SaltBytes : CreateBegin(n, p, b)
    \/ \E c \in creating : CreateDeriveFails(c)
    \/ \E c \in creating : CreateFinish(c)
    \/ \E n \in Names : CrashInStage(n)
    \/ Restart
    \/ ListJournals

SpecList == Init /\ [][NextList]_vars

\* ------------------------------------------------- days and persistent goals
\* journal holds the rows of the tables days and persistent_goals of the vault the
\* session works on: days[d] counts the rows of days with date d, goals[d] are the
\* contents of the rows of persistent_goals whose day_id is the day of date d.
\* Dates are YYYY-MM-DD strings, whose text order is the calendar's.
Contents == {1, 2}
\* SELECT * FROM days WHERE date < ? ORDER BY date DESC LIMIT 1 (0: no row)
prevDay(j, date) ==
    LET earlier == {e \in Dates : e < date /\ j.days[e] > 0}
    IN  IF earlier = {} THEN 0 ELSE CHOOSE e \in earlier : \A f \in earlier : f <= e
\* the handler of GET /api/days/:date on the tables
getDay(j, date) ==
    IF j.days[date] > 0
    THEN j
    ELSE LET inserted == [j EXCEPT !.days[date] = @ + 1]
             prev == prevDay(inserted, date)
         IN  IF prev # 0 /\ inserted.goals[prev] # <<>>
             THEN [inserted EXCEPT !.goals[date] = Append(@, Head(inserted.goals[prev]))]
             ELSE inserted
\* the handler of PUT /api/days/:dayId/goals: UPDATE the rows of the day, or INSERT one
putGoal(j, date, content) ==
    IF j.goals[date] # <<>>
    THEN [j EXCEPT !.goals[date] = [i \in DOMAIN @ |-> content]]
    ELSE [j EXCEPT !.goals[date] = <<content>>]

OpDay(o, date, r) == [op |-> o, path |-> NullPath, date |-> date, res |-> r]

GetDay(date) ==
    /\ alive
    /\ requireUnlock(isUnlocked, dbConnection) = "next"
    /\ journal' = getDay(journal, date)
    /\ lastOp' = OpDay("getDay", date, IF journal.days[date] > 0 THEN "found" ELSE "created")
    /\ UNCHANGED <<canon, staging, procVars, resp, busyArrivals, overlap, live, durable,
                   nOpens, nWrites, crashed, ioFailed, creating, fn, canonMode, client>>

\* the dayId is one a GET answered: the id of an existing day
PutGoal(date, content) ==
    /\ alive
    /\ requireUnlock(isUnlocked, dbConnection) = "next"
    /\ journal.days[date] > 0
    /\ journal' = putGoal(journal, date, content)
    /\ lastOp' = OpDay("putGoal", date, "success")
    /\ UNCHANGED <<canon, staging, procVars, resp, busyArrivals, overlap, live, durable,
                   nOpens, nWrites, crashed, ioFailed, creating, fn, canonMode, client>>

\* one session on one vault in which days are asked for and goals are set
NextDays ==
    \/ \E n \in Names, p \in Passphrases : UnlockBegin(n, p)
    \/ \E r \in inflight : UnlockFinish(r)
    \/ \E d \in Dates : GetDay(d)
    \/ \E d \in Dates, c \in Contents : PutGoal(d, c)

SpecDays == Init /\ [][NextDays]_vars

\* ------------------------------------------------- the container codec
\* The split of openDatabase applied to the join of createJournal, the tick and
\* closeDatabase, on drawn inputs: salts of 16 bytes that differ in where their
\* bytes change, payloads of up to MaxPayload bytes of the same alphabet.
Salts == {[i \in 1..SaltLen |-> IF i <= k THEN 1 ELSE 2] : k \in 0..SaltLen}
Payloads == UNION {[1..n -> SaltBytes] : n \in 0..MaxPayload}
\* names of up to MaxName characters, path separators and dots among them (the
\* routes refuse the empty name)
NameChars == {"a", "-", ".", "/"}
UserNames == UNION {[1..n -> NameChars] : n \in 1..MaxName}

InitPure ==
    /\ canon = [p \in Paths |-> NoFile]
    /\ staging = [p \in Paths |-> NoFile]
    /\ alive = TRUE
    /\ dbConnection = NullHandle
    /\ dbPath = NullPath
    /\ isUnlocked = FALSE
    /\ autoSaveInterval = FALSE
    /\ timers = 0
    /\ handles = {}
    /\ inflight = {}
    /\ resp = [i \in 1..MaxOpens |-> "none"]
    /\ busyArrivals = {}
    /\ overlap = {}
    /\ live = [p \in Paths |-> {}]
    /\ durable = [p \in Paths |-> {}]
    /\ lastOp = Op("init", NullPath)
    /\ nOpens = 0
    /\ nWrites = 0
    /\ crashed = FALSE
    /\ ioFailed = FALSE
    /\ creating = {}
    /\ canonMode = [p \in Paths |-> "none"]
    /\ journal = NoJournal
    /\ client = NoClient
    /\ fn \in {[NoFn EXCEPT !.op = "input", !.salt = S, !.payload = P] :
                   S \in Salts, P \in Payloads}
              \cup {[NoFn EXCEPT !.op = "name", !.name = n] : n \in UserNames}
              \cup {[NoFn EXCEPT !.op = "secret", !.pass = p, !.salt = S] :
                       p \in Passphrases, S \in Salts}

\* Buffer.concat([salt, dbData]) written, read back, sliced at 16
SplitJoined ==
    /\ fn.op = "input"
    /\ fn' = [fn EXCEPT !.op = "split",
                        !.file = joinContainer(fn.salt, fn.payload),
                        !.outSalt = splitSalt(joinContainer(fn.salt, fn.payload)),
                        !.outPayload = splitPayload(joinContainer(fn.salt, fn.payload))]
    /\ UNCHANGED <<canon, staging, procVars, resp, busyArrivals, overlap, live, durable,
                   lastOp, nOpens, nWrites, crashed, ioFailed, creating, canonMode, journal, client>>

\* getJournalPath(journalName) on a name as a request can carry it
ResolveName ==
    /\ fn.op = "name"
    /\ fn' = [fn EXCEPT !.op = "path", !.path = resolvedPath(fn.name)]
    /\ UNCHANGED <<canon, staging, procVars, resp, busyArrivals, overlap, live, durable,
                   lastOp, nOpens, nWrites, crashed, ioFailed, creating, canonMode, journal, client>>

\* the key of one (passphrase, salt) derived twice by openDatabase's deriveKey and
\* once by createJournal's
DeriveKeys ==
    /\ fn.op = "secret"
    /\ fn' = [fn EXCEPT !.op = "keys",
                        !.keys = <<deriveKey(fn.pass, fn.salt), deriveKey(fn.pass, fn.salt),
                                   deriveKeyBootstrap(fn.pass, fn.salt)>>]
    /\ UNCHANGED <<canon, staging, procVars, resp, busyArrivals, overlap, live, durable,
                   lastOp, nOpens, nWrites, crashed, ioFailed, creating, canonMode, journal, client>>

NextPure ==
    \/ SplitJoined
    \/ ResolveName
    \/ DeriveKeys

SpecPure == InitPure /\ [][NextPure]_vars

\* ------------------------------------------------- the browser's windows
serverVars == <<canon, staging, procVars, resp, busyArrivals, overlap, live, durable, lastOp,
                nOpens, nWrites, crashed, ioFailed, creating, fn, canonMode, journal>>

\* clearTimeout(id): the timeout is armed no longer
clearTimeout(pending, id) == {t \in pending : t.id # id}

\* scheduleAutoSave(windowId, content): the window's armed timer is cleared, a
\* new one is armed that closes over windowId and content, and saveTimers maps
\* the window to it
scheduleAutoSave(c, windowId, content) ==
    LET id == c.nInputs + 1
        cleared == IF c.saveTimers[windowId] # 0
                   THEN clearTimeout(c.pending, c.saveTimers[windowId])
                   ELSE c.pending
    IN  [c EXCEPT !.pending = cleared
                               \cup {[id |-> id, windowId |-> windowId, content |-> content]},
                  !.saveTimers[windowId] = id]

\* clearWindows(): every timer of saveTimers is cleared and the map emptied, the
\* window elements are removed; nothing is sent
clearWindows(c) ==
    [c EXCEPT !.pending = {t \in c.pending : \A w \in WindowIds : c.saveTimers[w] # t.id},
              !.saveTimers = [w \in WindowIds |-> 0],
              !.windows = {}]

\* the 'input' listener of a shown window's textarea
InputEvent(windowId, content) ==
    /\ windowId \in client.windows
    /\ client.nInputs < MaxInputs
    /\ client' = [scheduleAutoSave(client, windowId, content)
                     EXCEPT !.typed[windowId] = content, !.nInputs = client.nInputs + 1]
    /\ UNCHANGED serverVars

\* an armed timeout comes due: saveWindowContent issues api.updateWindow with the
\* content the callback closed over, then the window's saveTimers entry is deleted
TimerFires(t) ==
    /\ t \in client.pending
    /\ client' = [client EXCEPT !.pending = client.pending \ {t},
                                 !.sent[t.windowId] = Append(client.sent[t.windowId], t.content),
                                 !.saveTimers[t.windowId] = 0]
    /\ UNCHANGED serverVars

\* loadWindows(dayId) up to its await: setCurrentDay, clearWindows, api.getWindows
LoadWindowsBegin(dayId) ==
    /\ client.nLoads < MaxLoads
    /\ client' = [clearWindows(client) EXCEPT !.currentDayId = dayId,
                                               !.fetches = client.fetches \cup {dayId},
                                               !.nLoads = client.nLoads + 1]
    /\ UNCHANGED serverVars

\* ... and after it: createWindowElement for each window of the day
LoadWindowsFinish(dayId) ==
    /\ dayId \in client.fetches
    /\ client' = [client EXCEPT !.windows = client.windows \cup WindowsOfDay[dayId],
                                 !.fetches = client.fetches \ {dayId}]
    /\ UNCHANGED serverVars

\* one browser session: days are opened, the user types, the timers come due
NextClient ==
    \/ \E d \in ClientDays : LoadWindowsBegin(d)
    \/ \E d \in ClientDays : LoadWindowsFinish(d)
    \/ \E w \in WindowIds, c \in Contents : InputEvent(w, c)
    \/ \E t \in client.pending : TimerFires(t)

\* the event loop runs every armed timeout that is not cleared, and every fetch
\* is answered
SpecClient ==
    /\ Init
    /\ [][NextClient]_vars
    /\ WF_vars(\E t \in client.pending : TimerFires(t))
    /\ WF_vars(\E d \in ClientDays : LoadWindowsFinish(d))

\* ---------------------------------------------------------------- claims
Unlocked == isUnlocked /\ dbConnection # NullHandle
Died == alive /\ ~alive'
\* an unlock request r of this state is answered by the step
Answered(r) == r \in inflight /\ r \notin inflight' /\ alive'
LockStep == alive /\ alive' /\ lastOp'.op = "lock" /\ ~UNCHANGED vars
PayloadRecs(file) == RecSet(splitPayload(Bytes(file)))
\* after the step the vault at path p is Locked: no session and no live engine
\* handle for it
LockedAfter(p) ==
    /\ ~(isUnlocked' /\ dbPath' = p)
    /\ \A h \in handles' : h.path # p

\* C1: when the process dies, at any point, every canonical vault file is a
\* complete container: the one it was before the running handler started (its
\* last-checkpointed state) or the whole new one that replaces it; never a
\* partly written one.
C1_CrashLeavesCompleteContainer ==
    [][Died => \A p \in Paths :
                  \/ canon'[p] = canon[p]
                  \/ /\ canon[p] # NoFile /\ staging[p] # NoFile
                     /\ canon'[p] = File(dbWithHeader(Now, p))]_vars

\* C2: after an unclean shutdown, a restart and a successful open, the reopened
\* database holds exactly the writes made before the last checkpoint.
\* (Stated for behaviours in which no unlock request ever arrived at a busy vault.)
C2_ReopenSeesLastCheckpoint ==
    (crashed /\ alive /\ lastOp.op = "unlockOk" /\ busyArrivals = {})
        => /\ staging[lastOp.path] # NoFile
           /\ RecSet(Bytes(staging[lastOp.path]).data) = durable[lastOp.path]

\* C3: an unlock request that arrives while a session for its vault is Unlocking
\* or Unlocked is answered AlreadyUnlockedError.
\* (A request whose key derivation itself failed is left aside.)
C3_SecondOpenRefused ==
    \A id \in busyArrivals : resp[id] \in {"pending", "Derivation", "AlreadyUnlocked"}

\* C4: while the session is Unlocked, the staging file of its vault exists and is
\* the file the session's engine handle operates on.
C4_SessionOwnsStaging ==
    Unlocked => /\ HandleOf(dbConnection).path = dbPath
                /\ Attached(HandleOf(dbConnection))

\* C5: of two unlock requests for one vault (same passphrase) that were in flight
\* together, once both are answered and one of them unlocked the vault, the other
\* was answered AlreadyUnlockedError.
C5_ConcurrentOpensOneWinner ==
    \A pr \in overlap :
        (/\ resp[pr[1]] \notin {"pending", "Derivation"}
         /\ resp[pr[2]] \notin {"pending", "Derivation"}
         /\ "ok" \in {resp[pr[1]], resp[pr[2]]})
            => {resp[pr[1]], resp[pr[2]]} = {"ok", "AlreadyUnlocked"}

\* C6: at most one engine handle is live, and it is the session's: no unlock/lock
\* sequence leaves a second live handle or a handle nothing refers to.
C6_SingleLiveHandle ==
    \A h \in handles : Unlocked /\ h.id = dbConnection

\* C7: an unlock with a passphrase other than the one the vault was created with
\* is answered WrongPassphraseError, and then the vault is Locked and no staging
\* file is left.  (Requests whose key derivation failed are left aside.)
C7_WrongPassphraseLeavesLocked ==
    [][\A r \in inflight :
          (/\ Answered(r)
           /\ r.pass # CreatedWith[r.path].pass
           /\ resp'[r.id] # "Derivation")
             => /\ resp'[r.id] = "WrongPass"
                /\ LockedAfter(r.path)
                /\ staging'[r.path] = NoFile]_vars

\* C8: whenever an open fails after its payload was staged, the staged file is
\* gone when the request is answered.
C8_FailedOpenRemovesStaging ==
    [][\A r \in inflight :
          (Answered(r) /\ resp'[r.id] # "ok") => staging'[r.path] = NoFile]_vars

\* C9: no step of an unlock request writes a canonical vault file: a step that
\* ends the request in failure (missing vault, corrupt container, derivation
\* failure, engine refusing the file, wrong passphrase), and any other step of
\* openDatabase, leaves every canonical file as it was, byte for byte.
C9_FailedOpenKeepsCanon ==
    [][(alive /\ alive' /\ lastOp'.op \in {"unlockFail", "unlockBegin", "unlockOk"})
          => canon' = canon]_vars

\* a wrong passphrase was refused on a vault whose file holds a record, and a
\* request for a missing vault was refused too
C9_Witness ==
    /\ lastOp.op = "unlockFail"
    /\ \E i \in 1..MaxOpens : resp[i] = "WrongPass"
    /\ canon[lastOp.path] # NoFile
    /\ PayloadRecs(canon[lastOp.path]) # {}

\* C10: a lock from Unlocked leaves the vault's canonical file as its salt
\* followed by the database with every acknowledged write in it, no staging file,
\* no live engine handle on the vault and the vault Locked.
C10_CloseFoldsEverything ==
    [][(LockStep /\ Unlocked)
          => /\ canon'[dbPath] # NoFile
             /\ splitSalt(Bytes(canon'[dbPath])) = splitSalt(Bytes(canon[dbPath]))
             /\ PayloadRecs(canon'[dbPath]) = live[dbPath]
             /\ staging'[dbPath] = NoFile
             /\ LockedAfter(dbPath)]_vars

\* C11: when the fold-back of the staged file into the canonical file fails
\* inside close, the engine handle is released all the same and the lock request
\* is not answered with success.
C11_FailedCloseNotSuccess ==
    [][(~ioFailed /\ ioFailed' /\ lastOp'.op = "lockIOFail")
          => /\ \A h \in handles' : h.id # dbConnection
             /\ lastOp'.res # "success"]_vars

\* C12: a filesystem failure inside an auto-save tick leaves the canonical file
\* as the last good checkpoint left it, and the failure is reported to a caller
\* rather than only caught.
C12_FailedTickKeepsCanon ==
    [][(~ioFailed /\ ioFailed' /\ lastOp'.op = "tickIOFail")
          => /\ canon' = canon
             /\ lastOp'.res = "error"]_vars

\* C13: a termination signal received while a vault is Unlocked ends the
\* process only after a final checkpoint and close: when the process has exited the
\* canonical file holds every write of the session and the staging file is gone.
C13_ShutdownFoldsSession ==
    [][(alive /\ ~alive' /\ lastOp'.op = "shutdown" /\ Unlocked)
          => /\ canon'[dbPath] # NoFile
             /\ live[dbPath] \subseteq PayloadRecs(canon'[dbPath])
             /\ staging'[dbPath] = NoFile]_vars

\* C14: the auto-save tick and the close of the lock handler never work on the
\* staging file and the canonical file at once, and no tick writes the canonical
\* file once the session is locked: a tick runs as one step that leaves the
\* session alone, the lock handler leaves no timer scheduled, and a tick that
\* finds no Unlocked session touches no file.
TickStep == alive /\ alive' /\ lastOp'.op = "tick"
C14_TickExcludedByLock ==
    [][/\ LockStep => (~autoSaveInterval' /\ ~isUnlocked' /\ dbConnection' = NullHandle)
       /\ TickStep => UNCHANGED <<dbConnection, dbPath, isUnlocked, autoSaveInterval,
                                  handles, staging>>
       /\ (TickStep /\ ~Unlocked) => canon' = canon
       /\ (TickStep /\ Unlocked) => \A p \in Paths : p # dbPath => canon'[p] = canon[p]]_vars
\* a session whose ticks and writes were folded is locked: no timer is left
C14_Witness ==
    /\ lastOp.op = "lock" /\ lastOp.path # NullPath
    /\ ~autoSaveInterval /\ ~isUnlocked
    /\ canon[lastOp.path] # NoFile /\ PayloadRecs(canon[lastOp.path]) # {}

\* C15: salt immutability.  Whatever opens, writes, auto-saves, closes and failed
\* opens a vault has seen, the first 16 bytes of its canonical file are the salt
\* it was created with.  (A process death can cut the file short, C1; a file
\* that still has 16 bytes has them unchanged even then.)
CreationSalt(p) == randomSalt(CreatedWith[p].salt)
C15_SaltNeverChanges ==
    \A p \in Paths :
        canon[p] # NoFile
            => /\ ~crashed => Len(Bytes(canon[p])) >= SaltLen
               /\ Len(Bytes(canon[p])) >= SaltLen
                      => splitSalt(Bytes(canon[p])) = CreationSalt(p)
\* a vault that was opened, written, folded back by lock, then refused to a
\* wrong passphrase
C15_Witness ==
    /\ ~crashed /\ lastOp.op = "unlockFail"
    /\ \E i \in 1..MaxOpens : resp[i] = "WrongPass"
    /\ canon[lastOp.path] # NoFile
    /\ Cardinality(PayloadRecs(canon[lastOp.path])) = MaxWrites
    /\ splitSalt(Bytes(canon[lastOp.path])) = CreationSalt(lastOp.path)

\* C16: an open of a vault whose file is as create left it, made with the
\* passphrase given to create, succeeds and leaves the session Unlocked on that
\* vault: the key open derives from the stored salt is the key create used.
\* (One open at a time, C3; a failing key derivation is left aside.)
FreshFor(r) == canon[r.path] = File(createJournalImage(r.pass, r.salt))
C16_FreshVaultOpens ==
    [][\A r \in inflight :
          (Answered(r) /\ FreshFor(r) /\ busyArrivals = {} /\ resp'[r.id] # "Derivation")
              => /\ resp'[r.id] = "ok"
                 /\ isUnlocked' /\ dbConnection' = r.id /\ dbPath' = r.path
                 /\ \E h \in handles' :
                        h.id = r.id /\ h.key = deriveKeyBootstrap(r.pass, r.salt)]_vars
\* an Unlocked session on a vault whose file is still the one create wrote
C16_Witness ==
    /\ lastOp.op = "unlockOk" /\ Unlocked /\ busyArrivals = {}
    /\ canon[dbPath] = File(createJournalImage(CreatedWith[dbPath].pass, CreationSalt(dbPath)))
    /\ HandleOf(dbConnection).key =
           deriveKeyBootstrap(CreatedWith[dbPath].pass, CreationSalt(dbPath))

\* C20: a create request for a name whose vault file already exists is answered
\* AlreadyExistsError, and the file, like everything else on disk, is left as it was.
C20_CreateExistingRefused ==
    [][(lastOp'.op = "createBegin" /\ canon[lastOp'.path] # NoFile)
          => /\ lastOp'.res = "AlreadyExists"
             /\ canon' = canon /\ staging' = staging
             /\ creating' = creating]_vars
\* a refused create of a vault an earlier request of the run created
C20_Witness ==
    /\ lastOp.op = "createBegin" /\ lastOp.res = "AlreadyExists"
    /\ canon[lastOp.path] # NoFile
    /\ \E p \in Passphrases, b \in SaltBytes :
          /\ [pass |-> p, salt |-> b] # CreatedWith[lastOp.path]
          /\ canon[lastOp.path] = File(createJournalImage(p, randomSalt(b)))

\* C17: container round trip.  For every 16-byte salt S and every payload P, the
\* joined container is S followed by P, and slicing it at byte 16 gives back
\* exactly S and P.
C17_SplitOfJoin ==
    fn.op = "split"
        => /\ Len(fn.file) = SaltLen + Len(fn.payload)
           /\ fn.outSalt = fn.salt
           /\ fn.outPayload = fn.payload
\* a longest payload whose first byte differs from the salt's last
C17_Witness ==
    /\ fn.op = "split"
    /\ Len(fn.payload) = MaxPayload
    /\ fn.payload[1] # fn.salt[SaltLen]
    /\ fn.outPayload = fn.payload

\* C18: an open of a vault file shorter than 16 bytes is answered
\* CorruptContainerError and nothing is staged; a file of exactly 16 bytes is
\* split into its salt and an empty payload, and the open goes on.
C18_ShortFileCorrupt ==
    [][(alive /\ nOpens' = nOpens + 1 /\ canon[lastOp'.path] # NoFile)
          => /\ Len(Bytes(canon[lastOp'.path])) < SaltLen
                => /\ resp'[nOpens'] = "Corrupt"
                   /\ UNCHANGED <<canon, staging, inflight>>
             /\ Len(Bytes(canon[lastOp'.path])) = SaltLen
                => /\ resp'[nOpens'] = "pending"
                   /\ \E r \in inflight' \ inflight :
                          r.id = nOpens' /\ r.salt = Bytes(canon[lastOp'.path])
                   /\ staging'[lastOp'.path] # NoFile
                   /\ Bytes(staging'[lastOp'.path]).data = <<>>]_vars
\* an open refused as corrupt: the file is there, cut short of its header by a
\* process death (the staging file of the dead session lies beside it)
C18_Witness ==
    /\ lastOp.op = "unlockFail" /\ nOpens > 0 /\ resp[nOpens] = "Corrupt"
    /\ canon[lastOp.path] # NoFile
    /\ Len(Bytes(canon[lastOp.path])) = SaltLen - 1
    /\ inflight = {}

\* C19: an open of a name whose vault file does not exist is answered
\* NotFoundError; no staging file is created and the session is left as it was.
C19_MissingVaultNotFound ==
    [][(alive /\ nOpens' = nOpens + 1 /\ canon[lastOp'.path] = NoFile)
          => /\ resp'[nOpens'] = "NotFound"
             /\ UNCHANGED <<canon, staging, dbConnection, dbPath, isUnlocked,
                            autoSaveInterval, handles, inflight>>]_vars
\* the refused open arrived while a session was Unlocked on another vault
C19_Witness ==
    /\ lastOp.op = "unlockFail" /\ nOpens > 0 /\ resp[nOpens] = "NotFound"
    /\ canon[lastOp.path] = NoFile /\ staging[lastOp.path] = NoFile
    /\ Unlocked /\ dbPath # lastOp.path

\* C21: the path of a vault is built from the name with every character outside
\* [A-Za-z0-9_-] replaced by '_': whatever the name, the resolved path is a
\* direct child of the vault directory, the file <sanitized name>.db.
C21_PathStaysInVaultDir ==
    fn.op = "path"
        => /\ Len(fn.path) = Len(JOURNAL_DIR) + 1
           /\ SubSeq(fn.path, 1, Len(JOURNAL_DIR)) = JOURNAL_DIR
           /\ fn.path[Len(fn.path)] = getJournalPath(fn.name) \o DbExt
           /\ Len(getJournalPath(fn.name)) = Len(fn.name)
           /\ \A i \in 1..Len(fn.name) :
                  getJournalPath(fn.name)[i] =
                      IF fn.name[i] \in SafeChars THEN fn.name[i] ELSE "_"
\* the name "../", which unsanitized would resolve to a file of the parent directory
C21_Witness ==
    /\ fn.op = "path"
    /\ fn.name = <<".", ".", "/">>
    /\ fn.path = Append(JOURNAL_DIR, <<"_", "_", "_", ".", "d", "b">>)

C23_TimerIffUnlocked ==
    /\ timers = (IF Unlocked THEN 1 ELSE 0)
    /\ (alive /\ autoSaveInterval) <=> Unlocked
    /\ ~alive => timers = 0
\* a second unlock has completed on an Unlocked session and one timer is scheduled
C23_Witness ==
    /\ lastOp.op = "unlockOk"
    /\ nOpens = 2
    /\ busyArrivals # {}
    /\ Unlocked
    /\ timers = 1

\* C24: journal data is reachable only while unlocked: a data request that meets a
\* locked session is answered 401 and touches no database and no file; rows are
\* read or written only in an Unlocked session; and a session that is not
\* Unlocked becomes Unlocked only by an unlock that succeeds.
C24_DataOnlyWhileUnlocked ==
    [][/\ (alive /\ ~Unlocked /\ lastOp'.op = "data")
            => /\ lastOp'.res = "401"
               /\ lastOp'.path = NullPath
               /\ UNCHANGED <<canon, staging, handles, live, durable, dbConnection,
                              isUnlocked>>
       /\ (lastOp'.op = "write" \/ (lastOp'.op = "data" /\ lastOp'.res = "200"))
            => /\ Unlocked
               /\ lastOp'.path = HandleOf(dbConnection).path
       /\ (~Unlocked /\ Unlocked') => lastOp'.op = "unlockOk"]_vars
\* a data request refused after a session that wrote records was locked
C24_Witness ==
    /\ alive /\ ~Unlocked
    /\ lastOp.op = "data" /\ lastOp.res = "401"
    /\ nOpens >= 1
    /\ \E p \in Paths : live[p] # {}

\* C25: the staging file has owner-only permissions in every state in which it
\* exists on disk.
C25_StagingOwnerOnly ==
    \A p \in Paths : staging[p] # NoFile => staging[p][1].mode = ModeOwnerOnly

\* C26: the canonical vault file is stored with mode 600: when create returns,
\* the file it made has owner-only permissions.
C26_CreatedOwnerOnly ==
    [][lastOp'.op = "createOk" => canonMode'[lastOp'.path] = ModeOwnerOnly]_vars

\* C27: an auto-save tick keeps the session Unlocked and is idempotent: it sets
\* the canonical file to its salt followed by the bytes staged at that moment,
\* leaves the staging file, the engine handles, the timer and the session
\* variables as they were, and a second tick with no write in between would leave
\* the canonical file identical; a tick that finds the session locked or no
\* staging file changes nothing.
C27_TickIdempotent ==
    [][TickStep
          => /\ UNCHANGED <<dbConnection, dbPath, isUnlocked, autoSaveInterval, timers,
                            handles, staging, live>>
             /\ (Unlocked /\ staging[dbPath] # NoFile)
                    => /\ canon'[dbPath] =
                              File(joinContainer(splitSalt(Bytes(canon[dbPath])),
                                                 Bytes(staging[dbPath]).data))
                       /\ autoSaveFs(FS(canon', staging'), dbPath).canon = canon'
                       /\ \A p \in Paths : p # dbPath => canon'[p] = canon[p]
             /\ (~Unlocked \/ staging[dbPath] = NoFile) => canon' = canon]_vars
\* a tick folded a written record into the canonical file of an Unlocked session
\* whose file already held an earlier one
C27_Witness ==
    /\ lastOp.op = "tick"
    /\ Unlocked
    /\ staging[dbPath] # NoFile
    /\ PayloadRecs(canon[dbPath]) = {1, 2}
    /\ Bytes(canon[dbPath]) = dbWithHeader(Now, dbPath)

\* C28: the list of vaults is computed from the vault directory at each call and
\* holds exactly the names of the .db files present: a vault is listed as soon as
\* create has returned, under its sanitized name; the path of every listed name
\* is the file of that vault; a staging file (.db.tmp) is never listed.
C28_ListIsDirectory ==
    [][/\ lastOp'.op = "list"
            => /\ lastOp'.res = {p \in Paths : canon[p] # NoFile}
               /\ \A n \in lastOp'.res :
                      /\ getJournalPath(n) = n
                      /\ resolvedPath(n) = Append(JOURNAL_DIR, n \o DbExt)
                      /\ n \o DbExt \in readdirSync(Now)
                      /\ ~endsWith(n \o DbExt, TmpExt)
               /\ \A p \in Paths :
                      staging[p] # NoFile => sliceEnd(p \o DbExt \o TmpExt, 3) \notin lastOp'.res
       /\ lastOp'.op = "createOk"
            => getJournalPath(lastOp'.path) \in listJournals(FS(canon', staging'))]_vars
\* both vaults listed, the created one among them, while a staging file of a
\* killed server lies in the directory
C28_Witness ==
    /\ lastOp.op = "list"
    /\ lastOp.res = Paths
    /\ \E p \in Paths : staging[p] # NoFile
    /\ crashed

\* C29: goals carry forward: when a request for a date creates the day and some
\* earlier day has a persistent goal, the new day receives a goal with the content
\* of the most recent earlier day; a request for an existing date creates no
\* second day and no second goal.
HasGoalBefore(date) == \E e \in Dates : e < date /\ journal.days[e] > 0 /\ journal.goals[e] # <<>>
C29_GoalsCarryForward ==
    [][\A d \in Dates :
          (lastOp'.op = "getDay" /\ lastOp'.date = d)
              => IF journal.days[d] = 0
                 THEN /\ journal'.days[d] = 1
                      /\ HasGoalBefore(d)
                            => /\ journal.goals[prevDay(journal, d)] # <<>>
                               /\ journal'.goals[d] =
                                      <<Head(journal.goals[prevDay(journal, d)])>>
                 ELSE journal' = journal]_vars

C31_FlushBeforeFold ==
    [][(alive /\ lastOp'.op \in {"tick", "lock", "shutdown"} /\ lastOp'.path # NullPath)
          => \A j \in DOMAIN lastOp'.calls :
                 lastOp'.calls[j] = "readStaged"
                     => \E i \in 1..(j - 1) : lastOp'.calls[i] = "wal_checkpoint"]_vars

\* C32: without an unclean termination no acknowledged write is lost: once the
\* session a write was accepted through has been locked or replaced, so that no
\* session is open on the vault, the write is in the vault's canonical file.
C32_NoAcknowledgedWriteLost ==
    \A p \in Paths :
        (alive /\ canon[p] # NoFile /\ ~(isUnlocked /\ dbPath = p))
            => live[p] \subseteq PayloadRecs(canon[p])

\* C33: an acknowledged lock stays in force until a later unlock request is
\* received: when the last request handled was a lock, the next step, whatever
\* it is, does not leave the session Unlocked.
C33_LockStaysInForce ==
    [][(alive /\ lastOp.op = "lock") => ~Unlocked']_vars

\* C34: of two create requests for one name that both passed the existence check
\* before either made the file, one succeeds and the other is answered
\* AlreadyExists, and the file stays the winner's container: a create that
\* comes back from its key derivation to find the file made is answered
\* AlreadyExists and leaves the file as it is.
C34_OverlappingCreateOneWinner ==
    [][(/\ alive /\ alive'
        /\ lastOp'.op \in {"createOk", "createFail"}
        /\ lastOp'.res # "Derivation"
        /\ canon[lastOp'.path] # NoFile)
          => /\ lastOp'.res = "AlreadyExists"
             /\ canon' = canon]_vars

\* C35: a create that fails after its existence check, or that the death of the
\* process cuts short, leaves no file at the vault path: the name is not listed
\* as a vault and a create for it can be tried again.
C35_FailedCreateLeavesNoFile ==
    [][(/\ alive
        /\ lastOp'.op \in {"createFail", "crashInCreate"}
        /\ canon[lastOp'.path] = NoFile)
          => /\ canon'[lastOp'.path] = NoFile
             /\ lastOp'.path \notin listJournals(FS(canon', staging'))
             /\ createJournalPrecheck(FS(canon', staging'), lastOp'.path) = "ok"]_vars

\* C36: the derived key lives in process memory only: no canonical file and no
\* staging file holds the key of any passphrase and salt, and the key of every
\* live engine handle is the one derived from a passphrase and the salt stored in
\* the vault's file.
DerivedKeys ==
    {deriveKey(p, randomSalt(b)) : p \in Passphrases, b \in SaltBytes}
        \cup {deriveKeyBootstrap(p, randomSalt(b)) : p \in Passphrases, b \in SaltBytes}
Holds(bytes, k) == \E i \in 1..Len(bytes) : bytes[i] = k
C38_UncaughtFoldsThenExits ==
    [][(alive /\ lastOp'.op = "uncaught" /\ Unlocked)
          => /\ staging[dbPath] # NoFile
                    => canon'[dbPath] =
                           File(joinContainer(splitSalt(Bytes(canon[dbPath])),
                                              Bytes(staging[dbPath]).data))
             /\ staging'[dbPath] = NoFile
             /\ \A p \in Paths : p # dbPath => canon'[p] = canon[p]
             /\ ~alive' /\ lastOp'.res = 1
             /\ timers' = 0 /\ ~autoSaveInterval'
             /\ lastOp'.calls[Len(lastOp'.calls)] = "exit"
             /\ \A i \in DOMAIN lastOp'.calls : lastOp'.calls[i] # "tick"]_vars
\* the process has exited on an uncaught exception with the session's two
\* records in the canonical file and no staging file left
C38_Witness ==
    /\ ~alive /\ lastOp.op = "uncaught" /\ lastOp.path # NullPath
    /\ lastOp.res = 1
    /\ staging[lastOp.path] = NoFile
    /\ PayloadRecs(canon[lastOp.path]) = {1, 2}
    /\ busyArrivals = {}

\* C39: distinct vault names denote distinct vaults: the file a name resolves to
\* is the file of no other name.
C39_DistinctNamesDistinctFiles ==
    fn.op = "path"
        => \A other \in UserNames : other # fn.name => resolvedPath(other) # fn.path

\* C40: once a save timer is armed for a window, a request carrying the content
\* last typed into that window is eventually the latest one sent for it, also
\* when a day is loaded before the timer comes due.
C40_LastTypedEventuallySent ==
    \A w \in WindowIds :
        (client.saveTimers[w] # 0)
            ~> (/\ client.sent[w] # <<>>
                /\ client.sent[w][Len(client.sent[w])] = client.typed[w])

====
